---- MODULE Spec2Model ----
(***************************************************************************)
(* A model of the RAG pipeline of karttikjangid/RAG:                       *)
(*   - get_chunks           (src/chunking.py), as its while loop;          *)
(*   - search_best_chunks   (src/retrieval.py), as its statements;         *)
(*   - the Streamlit session of src/app.py: one action per user turn       *)
(*     (add PDF, add YouTube video, delete source, chat input);            *)
(*   - start_app of src/main.py: one action per line typed at a prompt.    *)
(* Texts are sequences of one-character strings.  A Python value that may  *)
(* be None is None, the empty tuple, or Some(x), the tuple of x alone.     *)
(* The specifications share the variables:                                 *)
(*   ChunkSpec     - get_chunks on every bounded input,                    *)
(*   ChunkFairSpec - the same, with the loop executed to its end,          *)
(*   SearchSpec    - search_best_chunks on every bounded input,            *)
(*   Spec          - a session of app.py or a run of main.py.              *)
(***************************************************************************)
EXTENDS Integers, Sequences, FiniteSets, TLC

VARIABLES
    \* get_chunks (src/chunking.py)
    text, chunk_size, overlap, start, sliced, pc_chunk,
    \* search_best_chunks (src/retrieval.py)
    query, db_vectors, chunks, k, scores, top_results, results, i, pc_search,
    \* st.session_state (src/app.py); the raw text each current source was
    \* ingested with (a history variable, aligned with session_state.sources);
    \* the counters that bound a session; what the last handler run did (a
    \* history variable: the calls it made and how it ended)
    session_state, raw_texts, adds, asked, turn,
    \* which program runs ("app": src/app.py, "main": src/main.py), and the
    \* locals of main.py's start_app with its position
    entry, main

chunk_vars  == <<text, chunk_size, overlap, start, sliced, pc_chunk>>
search_vars == <<query, db_vectors, chunks, k, scores, top_results, results, i, pc_search>>
app_vars    == <<session_state, raw_texts, adds, asked, turn, entry, main>>
vars        == <<chunk_vars, search_vars, app_vars>>

(***************************************************************************)
(* Bounds of the model.                                                    *)
(***************************************************************************)
MaxLen    == 4      \* longest text given to get_chunks in ChunkSpec
MaxSize   == 3      \* largest chunk_size given to get_chunks in ChunkSpec
MaxChunks == 3      \* most rows / chunks given to search_best_chunks
MaxK      == 4      \* largest k given to search_best_chunks
MaxAdds   == 2      \* add-source turns in one session
MaxAsked  == 1      \* chat turns in one session

None == <<>>
Some(x) == <<x>>
\* the value inside Some(x)
The(opt) == opt[1]

Min(a, b) == IF a < b THEN a ELSE b
Max(a, b) == IF a > b THEN a ELSE b

\* ceil(a / b) for a >= 0, b > 0
CeilDiv(a, b) == (a + b - 1) \div b

(***************************************************************************)
(* Python sequence primitives.                                             *)
(***************************************************************************)
\* s[lo:hi] for a sequence s: negative bounds count from the end, and both
\* bounds are clipped to [0, len(s)].
PySlice(s, lo, hi) ==
    LET n   == Len(s)
        lo2 == IF lo < 0 THEN Max(lo + n, 0) ELSE Min(lo, n)
        hi2 == IF hi < 0 THEN Max(hi + n, 0) ELSE Min(hi, n)
    IN  IF hi2 <= lo2 THEN <<>> ELSE SubSeq(s, lo2 + 1, hi2)

\* sep.join(parts)
RECURSIVE Join(_, _)
Join(sep, parts) ==
    IF parts = <<>> THEN <<>>
    ELSE IF Len(parts) = 1 THEN parts[1]
    ELSE parts[1] \o sep \o Join(sep, Tail(parts))

\* list.pop(idx) for 0 <= idx < len(s): the list without that element
Pop(s, idx) == SubSeq(s, 1, idx) \o SubSeq(s, idx + 2, Len(s))

\* n copies of the character c
Rep(c, n) == [j \in 1..n |-> c]

(***************************************************************************)
(* get_chunks(text, chunk_size, overlap): src/chunking.py                  *)
(***************************************************************************)
\* An inclusive loop test: the loop runs once more when start = len(text).
LoopCondInclusive(st, n) == st <= n

\* chunking.py:9       while start < text_length
LoopCond(st, n) == st < n

\* The window taken one character late.
ChunkAtLate(t, st, size) == PySlice(t, st + 1, st + size)

\* chunking.py:10-11   end = start + chunk_size ; text[start:end]
ChunkAt(t, st, size) == PySlice(t, st, st + size)

\* A sign slip in the stride: the window jumps over `overlap` characters.
NextStartSkipping(st, size, ov) == st + (size + ov)

\* The overlap forgotten in the stride: windows no longer overlap.
NextStartNoOverlap(st, size, ov) == st + size

\* The window moved by the overlap instead of by the stride.
NextStartByOverlap(st, size, ov) == st + ov

\* chunking.py:13      start += (chunk_size - overlap)
NextStart(st, size, ov) == st + (size - ov)

\* The whole function, for the callers that use its result.
RECURSIVE GetChunksFrom(_, _, _, _)
GetChunksFrom(t, size, ov, st) ==
    IF LoopCond(st, Len(t))
    THEN <<ChunkAt(t, st, size)>> \o GetChunksFrom(t, size, ov, NextStart(st, size, ov))
    ELSE <<>>

get_chunks(t, size, ov) == GetChunksFrom(t, size, ov, 0)

\* The contract's precondition 0 <= overlap < size; get_chunks never tests it.
ValidConfig == 0 <= overlap /\ overlap < chunk_size

\* The loop of an invalid configuration need not end: the model follows it
\* for more iterations than any valid configuration takes.
IterCap == MaxLen + 2

Alphabet == {"a", "b"}

Texts == UNION {[1..n -> Alphabet] : n \in 0..MaxLen}

ChunkIdle ==
    /\ text = <<>> /\ chunk_size = 1 /\ overlap = 0
    /\ start = 0 /\ sliced = <<>> /\ pc_chunk = "idle"

SearchIdle ==
    /\ query = <<>> /\ db_vectors = <<>> /\ chunks = <<>> /\ k = 1
    /\ scores = <<>> /\ top_results = None /\ results = <<>> /\ i = 0
    /\ pc_search = "idle"

\* start_app is not running
MainOff ==
    [pc |-> "off", all_text |-> <<>>, sources_loaded |-> <<>>,
     text_chunks |-> <<>>, db_vectors |-> <<>>, model |-> None]

AppIdle ==
    /\ session_state = None /\ raw_texts = <<>> /\ adds = 0 /\ asked = 0
    /\ turn = None /\ entry = "none" /\ main = MainOff

\* chunking.py:5-8: the call, with sliced = [] and start = 0
ChunkInit ==
    /\ text \in Texts
    /\ chunk_size \in 1..MaxSize
    /\ overlap \in (-1)..(MaxSize + 1)
    /\ start = 0
    /\ sliced = <<>>
    /\ pc_chunk = "while"
    /\ SearchIdle /\ AppIdle

\* chunking.py:9-13: one iteration of the while loop
ChunkLoop ==
    /\ pc_chunk = "while"
    /\ LoopCond(start, Len(text))
    /\ Len(sliced) < IterCap
    /\ sliced' = Append(sliced, ChunkAt(text, start, chunk_size))
    /\ start' = NextStart(start, chunk_size, overlap)
    /\ UNCHANGED <<text, chunk_size, overlap, pc_chunk, search_vars, app_vars>>

\* chunking.py:9,15: the loop condition fails and sliced is returned
ChunkReturn ==
    /\ pc_chunk = "while"
    /\ ~LoopCond(start, Len(text))
    /\ pc_chunk' = "done"
    /\ UNCHANGED <<text, chunk_size, overlap, start, sliced, search_vars, app_vars>>

ChunkNext == ChunkLoop \/ ChunkReturn

ChunkSpec == ChunkInit /\ [][ChunkNext]_vars

(***************************************************************************)
(* Claims about get_chunks, checked under ChunkSpec.                       *)
(***************************************************************************)
ChunkDone == pc_chunk = "done"

\* the stride of a valid configuration, at least 1
Stride == chunk_size - overlap

\* C1 (chunk coverage): when get_chunks returns under a valid configuration,
\* every position p of the text lies in the span [j*stride, j*stride + size)
\* of some returned chunk j, and that chunk holds the text's character at p.
C1_ChunkCoverage ==
    (ChunkDone /\ ValidConfig) =>
        \A p \in 0..(Len(text) - 1) :
            \E j \in 0..(Len(sliced) - 1) :
                LET lo == j * Stride IN
                /\ lo <= p
                /\ p < lo + chunk_size
                /\ p - lo < Len(sliced[j + 1])
                /\ sliced[j + 1][p - lo + 1] = text[p + 1]

\* C1 witness: a valid overlapping configuration returned several chunks.
C1_Witness ==
    /\ ChunkDone /\ ValidConfig
    /\ overlap > 0
    /\ Len(text) > chunk_size
    /\ Len(sliced) >= 2

\* C2 as stated (chunk count formula): for L > 0 the number of chunks is
\* ceil(max(L - overlap, 0) / (size - overlap)), and 0 for L = 0.
C2_CountAsStated ==
    (ChunkDone /\ ValidConfig) =>
        Len(sliced) = IF Len(text) > 0
                      THEN CeilDiv(Max(Len(text) - overlap, 0), Stride)
                      ELSE 0

\* C2 amended: under a valid configuration the number of chunks returned is
\* ceil(L / (size - overlap)), which is 0 for L = 0.
C2_ChunkCount ==
    (ChunkDone /\ ValidConfig) => Len(sliced) = CeilDiv(Len(text), Stride)

\* C2 witness: a returned chunking whose count differs from the stated formula.
C2_Witness ==
    /\ ChunkDone /\ ValidConfig
    /\ Len(text) > chunk_size
    /\ overlap > 0
    /\ Len(sliced) = CeilDiv(Len(text), Stride)
    /\ Len(sliced) # CeilDiv(Max(Len(text) - overlap, 0), Stride)

\* C3 as stated: a non-empty text shorter than size gives exactly one chunk,
\* the whole text; the empty text gives the empty sequence.
C3_ShortTextAsStated ==
    (ChunkDone /\ ValidConfig) =>
        /\ (0 < Len(text) /\ Len(text) < chunk_size) => sliced = <<text>>
        /\ Len(text) = 0 => sliced = <<>>

\* C3 amended: for a non-empty text shorter than size the first chunk is the
\* whole text, and it is the only chunk exactly when len(text) <= size - overlap
\* (otherwise chunks of its suffixes follow); the empty text gives the empty
\* sequence.
C3_ShortText ==
    (ChunkDone /\ ValidConfig) =>
        /\ (0 < Len(text) /\ Len(text) < chunk_size) =>
              /\ Len(sliced) >= 1
              /\ sliced[1] = text
              /\ (Len(sliced) = 1 <=> Len(text) <= Stride)
              /\ \A j \in 2..Len(sliced) :
                    sliced[j] = SubSeq(text, (j - 1) * Stride + 1, Len(text))
        /\ Len(text) = 0 => sliced = <<>>

\* C3 witness: a text shorter than size, longer than the stride, has returned.
C3_Witness ==
    /\ ChunkDone /\ ValidConfig
    /\ 0 < Len(text) /\ Len(text) < chunk_size
    /\ Len(text) > Stride
    /\ Len(sliced) = 2

\* C4 (invalid configuration rejected): with overlap >= size or overlap < 0
\* the call ends in InvalidConfiguration before any chunk is emitted: no chunk
\* is ever appended and the call never returns a chunk sequence.
C4_InvalidConfigRejected ==
    (pc_chunk # "idle" /\ ~ValidConfig) =>
        /\ sliced = <<>>
        /\ pc_chunk \in {"while", "InvalidConfiguration"}

\* The interpreter keeps running the loop: a step that can be taken is taken.
ChunkFairSpec == ChunkSpec /\ WF_vars(ChunkNext)

\* C16 (chunker termination): under a valid configuration the loop ends, having
\* appended finitely many chunks (at most one per character), with
\* start >= len(text).
C16_ChunkerTerminates ==
    ValidConfig =>
        <>(ChunkDone /\ start >= Len(text) /\ Len(sliced) <= Len(text))

\* C16 witness: a valid configuration has returned after several iterations.
C16_Witness ==
    /\ ChunkDone /\ ValidConfig
    /\ start >= Len(text)
    /\ Len(sliced) >= 3

\* the characters of chunk a from the stride on: what it has in common with
\* the chunk that follows it
TailFromStride(a) == SubSeq(a, Stride + 1, Len(a))

\* C17 as stated (exact overlap): the last `overlap` characters of every chunk
\* are the first `overlap` characters of the next one, the final pair included.
C17_ExactOverlapAsStated ==
    (ChunkDone /\ ValidConfig) =>
        \A j \in 1..(Len(sliced) - 1) :
            /\ Len(sliced[j]) >= overlap
            /\ Len(sliced[j + 1]) >= overlap
            /\ SubSeq(sliced[j], Len(sliced[j]) - overlap + 1, Len(sliced[j]))
                  = SubSeq(sliced[j + 1], 1, overlap)

\* C17 amended: chunk j+1 begins with the characters of chunk j from offset
\* size - overlap on; these shared characters number exactly `overlap` when
\* chunk j has the full length size, and len(chunk j) - (size - overlap), at
\* least 1 and fewer than `overlap`, when chunk j is itself clipped by the end
\* of the text.
C17_Overlap ==
    (ChunkDone /\ ValidConfig) =>
        \A j \in 1..(Len(sliced) - 1) :
            LET shared == TailFromStride(sliced[j]) IN
            /\ Len(shared) <= Len(sliced[j + 1])
            /\ shared = SubSeq(sliced[j + 1], 1, Len(shared))
            /\ Len(sliced[j]) = chunk_size => Len(shared) = overlap
            /\ Len(sliced[j]) < chunk_size =>
                  (1 <= Len(shared) /\ Len(shared) < overlap)

\* C17 witness: a returned chunking with a full pair sharing `overlap`
\* characters and a tail pair sharing fewer.
C17_Witness ==
    /\ ChunkDone /\ ValidConfig
    /\ overlap >= 2
    /\ \E j \in 1..(Len(sliced) - 1) : Len(sliced[j]) = chunk_size
    /\ \E j \in 1..(Len(sliced) - 1) : Len(sliced[j]) < chunk_size

\* C18 as stated (chunk shape): chunk j is text[j*stride : j*stride + size],
\* every chunk is non-empty, and every chunk except the final one has length
\* exactly size.
C18_ChunkShapeAsStated ==
    (ChunkDone /\ ValidConfig) =>
        /\ \A j \in 1..Len(sliced) :
              /\ sliced[j] = PySlice(text, (j - 1) * Stride, (j - 1) * Stride + chunk_size)
              /\ sliced[j] # <<>>
        /\ \A j \in 1..(Len(sliced) - 1) : Len(sliced[j]) = chunk_size

\* C18 amended: chunk j is text[j*stride : j*stride + size], every chunk is
\* non-empty, chunk j has length min(size, len(text) - j*stride), so the
\* chunks shorter than size are the trailing ones whose window passes the end
\* of the text (there can be several), and only the final chunk may be
\* shorter when overlap = 0.
C18_ChunkShape ==
    (ChunkDone /\ ValidConfig) =>
        /\ \A j \in 1..Len(sliced) :
              /\ sliced[j] = PySlice(text, (j - 1) * Stride, (j - 1) * Stride + chunk_size)
              /\ sliced[j] # <<>>
              /\ Len(sliced[j]) = Min(chunk_size, Len(text) - (j - 1) * Stride)
        /\ \A j \in 1..(Len(sliced) - 1) : Len(sliced[j]) >= Len(sliced[j + 1])
        /\ overlap = 0 =>
              \A j \in 1..(Len(sliced) - 1) : Len(sliced[j]) = chunk_size

\* C18 witness: a returned chunking whose last two chunks are both clipped.
C18_Witness ==
    /\ ChunkDone /\ ValidConfig
    /\ Len(sliced) >= 3
    /\ Len(sliced[Len(sliced) - 1]) < chunk_size
    /\ Len(sliced[Len(sliced)]) < Len(sliced[Len(sliced) - 1])

(***************************************************************************)
(* The embedding capability and cosine similarity.                         *)
(* SentenceTransformer.encode is an opaque, deterministic map from a text  *)
(* to a vector; here it maps a text into a small codebook of integer       *)
(* vectors of integer norm.  A similarity score is held in hundredths      *)
(* (100 is cosine 1.0), which is exact for these vectors.                  *)
(***************************************************************************)
Codebook == << <<3, 4>>, <<4, 3>>, <<6, 8>>, <<0, 5>>, <<-3, -4>> >>

Vectors == {Codebook[j] : j \in 1..Len(Codebook)}

CharCode(c) == CASE c = "a" -> 0 [] c = "b" -> 1 [] c = "y" -> 2 [] OTHER -> 3

\* retrieval.py:9, embedding.py:10, app.py:45   model.encode(...)
Encode(t) ==
    IF t = <<>> THEN Codebook[1]
    ELSE Codebook[((Len(t) + CharCode(t[1])) % Len(Codebook)) + 1]

\* model.encode(chunks): one row per chunk, in order
EncodeAll(ch) == [j \in 1..Len(ch) |-> Encode(ch[j])]

Dot(a, b) == a[1] * b[1] + a[2] * b[2]

ISqrt(n) == CHOOSE r \in 0..n : r * r = n

Norm(a) == ISqrt(Dot(a, a))

\* util.cos_sim for one pair: dot(a, b) / (|a| * |b|), in hundredths
CosSim(a, b) == (100 * Dot(a, b)) \div (Norm(a) * Norm(b))

\* retrieval.py:12   scores = util.cos_sim(query_vector, db_vectors)
Scores(qv, db) == [j \in 1..Len(db) |-> CosSim(qv, db[j])]

(***************************************************************************)
(* search_best_chunks(query, model, db_vectors, chunks, k): retrieval.py   *)
(* Indices are 1-based here and 0-based in the code.                       *)
(***************************************************************************)
\* torch.topk(scores, k) with sorted=True: the k largest entries, largest
\* first.  torch gives no order among equal values: every choice among the
\* largest remaining entries is a possible outcome.
RECURSIVE SelectTop(_, _, _)
SelectTop(sc, remaining, kk) ==
    IF kk = 0 THEN {<<>>}
    ELSE UNION {{<<j>> \o rest : rest \in SelectTop(sc, remaining \ {j}, kk - 1)} :
                j \in {m \in remaining : \A o \in remaining : sc[m] >= sc[o]}}

\* torch.topk raises RuntimeError when k exceeds the number of entries
TopKRaises(sc, kk) == kk > Len(sc)

\* retrieval.py:16   top_results = torch.topk(scores, k=k)
TopK(sc, kk) ==
    {[indices |-> idx, values |-> [j \in 1..kk |-> sc[idx[j]]]] :
        idx \in SelectTop(sc, 1..Len(sc), kk)}

\* The chunk taken at the rank instead of at the index topk returned.
ResultAtRank(ch, top, j) == [text |-> ch[j], score |-> top.values[j]]

\* retrieval.py:24-33   {"text": chunks[idx], "score": score}
ResultAt(ch, top, j) == [text |-> ch[top.indices[j]], score |-> top.values[j]]

\* chunks[idx] raises IndexError when idx is past the end of chunks
IndexRaises(ch, top, j) == top.indices[j] > Len(ch)

\* The whole function, for the callers that use its result: the set of its
\* possible outcomes, [status, results].
SearchOutcomes(q, db, ch, kk) ==
    LET sc == Scores(Encode(q), db) IN
    IF TopKRaises(sc, kk)
    THEN {[status |-> "RuntimeError", results |-> <<>>]}
    ELSE {IF \E j \in 1..kk : IndexRaises(ch, top, j)
          THEN [status |-> "IndexError", results |-> <<>>]
          ELSE [status |-> "ok", results |-> [j \in 1..kk |-> ResultAt(ch, top, j)]]
          : top \in TopK(sc, kk)}

Queries == {<<"a">>, <<"b">>, <<"a", "b">>}

\* retrieval.py:4: the call
SearchInit ==
    /\ query \in Queries
    /\ db_vectors \in UNION {[1..n -> Vectors] : n \in 0..MaxChunks}
    /\ chunks \in {[j \in 1..m |-> Rep("a", j)] : m \in 0..MaxChunks}
    /\ k \in 1..MaxK
    /\ scores = <<>>
    /\ top_results = None
    /\ results = <<>>
    /\ i = 0
    /\ pc_search = "encode"
    /\ ChunkIdle /\ AppIdle

\* retrieval.py:9-12: encode the query and score every row
SearchScore ==
    /\ pc_search = "encode"
    /\ scores' = Scores(Encode(query), db_vectors)
    /\ pc_search' = "topk"
    /\ UNCHANGED <<query, db_vectors, chunks, k, top_results, results, i,
                   chunk_vars, app_vars>>

\* retrieval.py:16-19: torch.topk, then results = []
SearchTopK ==
    /\ pc_search = "topk"
    /\ \/ /\ TopKRaises(scores, k)
          /\ pc_search' = "RuntimeError"
          /\ UNCHANGED top_results
       \/ /\ ~TopKRaises(scores, k)
          /\ top_results' \in TopK(scores, k)
          /\ pc_search' = "for"
    /\ UNCHANGED <<query, db_vectors, chunks, k, scores, results, i,
                   chunk_vars, app_vars>>

\* retrieval.py:22-33: one iteration of for i in range(k)
SearchPackage ==
    /\ pc_search = "for"
    /\ i < k
    /\ \/ /\ IndexRaises(chunks, top_results, i + 1)
          /\ pc_search' = "IndexError"
          /\ UNCHANGED <<results, i>>
       \/ /\ ~IndexRaises(chunks, top_results, i + 1)
          /\ results' = Append(results, ResultAt(chunks, top_results, i + 1))
          /\ i' = i + 1
          /\ UNCHANGED pc_search
    /\ UNCHANGED <<query, db_vectors, chunks, k, scores, top_results,
                   chunk_vars, app_vars>>

\* retrieval.py:35: return results
SearchReturn ==
    /\ pc_search = "for"
    /\ i = k
    /\ pc_search' = "done"
    /\ UNCHANGED <<query, db_vectors, chunks, k, scores, top_results, results, i,
                   chunk_vars, app_vars>>

SearchNext == SearchScore \/ SearchTopK \/ SearchPackage \/ SearchReturn

SearchSpec == SearchInit /\ [][SearchNext]_vars

(***************************************************************************)
(* Claims about search_best_chunks, checked under SearchSpec.              *)
(***************************************************************************)
SearchDone == pc_search = "done"

\* the call is over: it returned or raised
SearchEnded == pc_search \in {"done", "RuntimeError", "IndexError", "EmptyIndex"}

\* the index is non-empty and aligned: one row per chunk
IndexAligned == Len(db_vectors) = Len(chunks) /\ Len(chunks) >= 1

\* the indices the call returned, in rank order
Picked == top_results.indices

\* C5 (top-K result length): on a non-empty index and for every positive k
\* the call returns exactly min(k, len(chunks)) results; k > len(chunks) is
\* clamped and does not fail.
C5_TopKLengthClamped ==
    (SearchEnded /\ IndexAligned) =>
        /\ SearchDone
        /\ Len(results) = Min(k, Len(chunks))

\* C6 (top-K selection and ordering): the returned results are in
\* non-increasing score order, result j is the text chunks[idx] and the score
\* of the same index idx, no index is returned twice, and no chunk left out
\* scores strictly higher than one returned.
C6_TopKOrdering ==
    SearchDone =>
        /\ Len(results) = k
        /\ \A a, b \in 1..k : a < b => results[a].score >= results[b].score
        /\ \A j \in 1..k :
              /\ results[j].text = chunks[Picked[j]]
              /\ results[j].score = CosSim(Encode(query), db_vectors[Picked[j]])
        /\ \A a, b \in 1..k : a # b => Picked[a] # Picked[b]
        /\ \A e \in 1..Len(db_vectors) :
              (\A j \in 1..k : Picked[j] # e) =>
                  \A j \in 1..k : scores[e] <= results[j].score

\* C6 witness: a call returned k >= 2 results out of more rows than k whose
\* scores are not all equal.
C6_Witness ==
    /\ SearchDone
    /\ k >= 2
    /\ Len(db_vectors) > k
    /\ \E a, b \in 1..Len(scores) : scores[a] # scores[b]
    /\ results[1].score > results[k].score

\* C7 (tie-break determinism): among returned chunks of exactly equal score
\* the lower original index comes first, and when a tie straddles the k-th
\* position the lower-indexed chunks are the ones returned.
C7_TieBreakLowerIndexFirst ==
    SearchDone =>
        /\ \A a, b \in 1..k :
              (a < b /\ results[a].score = results[b].score) => Picked[a] < Picked[b]
        /\ \A e \in 1..Len(db_vectors) :
              (\A j \in 1..k : Picked[j] # e) =>
                  \A j \in 1..k : scores[e] = results[j].score => Picked[j] < e

\* C8 (empty-index rejection): a call on an empty matrix or an empty chunk
\* sequence ends in the distinguished EmptyIndex failure, for every query
\* and every k.
C8_EmptyIndexRejected ==
    (SearchEnded /\ (Len(db_vectors) = 0 \/ Len(chunks) = 0)) =>
        pc_search = "EmptyIndex"

(***************************************************************************)
(* The Streamlit session of src/app.py.  session_state is st.session_state.*)
(* Each action is one user turn: the script run that handles one widget    *)
(* event, up to its st.rerun(), its end, or the exception that ends it.    *)
(***************************************************************************)
AppChunkSize == 500     \* app.py:480  cached_chunking(full_text, 500, 100)
AppOverlap   == 100     \* app.py:480
AppTopK      == 3       \* app.py:653  k=3

\* "\n\n", the separator the handlers put before each text and between chunks
Sep == <<"\n", "\n">>

\* load_embedding_model(): the cached SentenceTransformer handle
ModelHandle == "all-MiniLM-L6-v2"

\* The file a user uploads, the text pypdf extracts from it, its size.
PdfFiles == {"a.pdf"}

\* a.pdf is the file uploaded to app.py, b.pdf the one named to main.py
PdfContent(name) == IF name = "a.pdf" THEN Rep("a", 900) ELSE Rep("b", 300)

\* len(file_bytes), as its decimal digits
PdfSize(name) == "4096"

\* The cross mark U+274C that opens every error string of get_pdf_text.
CrossMark == "X"

\* pdf_ingestion.py:73: the string get_pdf_text returns when pypdf fails,
\* "<cross mark> ERROR: Failed to read PDF - ..." (the mark, then the first word)
PdfErrorText == <<CrossMark, " ", "E", "R", "R", "O", "R">>

\* app.py:20-27: cached_pdf_extraction returns what get_pdf_text returns,
\* the text or the error string
PdfExtractions(name) == {PdfContent(name), PdfErrorText}

\* The URLs a user types: one with a video id, one without.
WatchUrl == "https://www.youtube.com/watch?v=abc"
BadUrl   == "not-a-video-url"

YoutubeUrls == {WatchUrl, BadUrl}

TranscriptText == Rep("y", 150)

\* youtube_ingestion.py:38-78: the transcript, or an exception ("raise"):
\* ValueError for a URL without a video id, Exception when the fetch fails
TranscriptOutcomes(url) ==
    IF url = WatchUrl
    THEN {[raised |-> FALSE, text |-> TranscriptText], [raised |-> TRUE, text |-> <<>>]}
    ELSE {[raised |-> TRUE, text |-> <<>>]}

\* app.py:514: youtube_url.split('v=')[-1][:20] + "..."
YoutubeDetailName(url) ==
    IF url = WatchUrl THEN "abc..." ELSE "not-a-video-url..."

\* Where the re-index block ends early: the call that raises.
\*   "none"  - no call raises
\*   "model" - load_embedding_model()   (app.py:477)
\*   "chunk" - cached_chunking(...)     (app.py:480)
\*   "embed" - cached_embedding(...)    (app.py:483)
Failures == {"none", "model", "chunk", "embed"}

InSeq(x, seq) == \E j \in 1..Len(seq) : seq[j] = x

\* The record of one handler run:
\*   op          the handler ("none" before the first one)
\*   ended       how the run ended: "rerun" (st.rerun() reached), "raised" (an
\*               exception left the script), "caught" (the except branch
\*               reported it), "warned" ("Already added!"), "rejected"
\*               ("Please add sources first!"), "answered", "error",
\*               "blocked" (the run is inside a call that does not return),
\*               "stopped" (a widget event ended the run at an st.* call)
\*   ingest      "none", "text" (the extraction returned a text), "error_result"
\*               (it returned an error string), "raised"
\*   reindex     "none", "skipped" (processing was set), "done", "raised"
\*   retrieval   "none" or the outcome of search_best_chunks
\*   top         the texts of the chunks it returned, in rank order
\*   generation  "none" or the outcome of the POST inside generate_answer
\*   gen_context the context argument generate_answer was called with
\*   shown       the chunk text the run wrote to the page next to its answer
\*               or error
TurnRecord(op, ended, ingest, reindex, retrieval, top, generation, gen_context, shown) ==
    [op |-> op, ended |-> ended, ingest |-> ingest, reindex |-> reindex,
     retrieval |-> retrieval, top |-> top, generation |-> generation,
     gen_context |-> gen_context, shown |-> shown]

NoTurn ==
    TurnRecord("none", "none", "none", "none", "none", <<>>, "none", <<>>, <<>>)

\* The script thread is inside a call that never returns: no later widget
\* event is handled.
Blocked == turn.ended = "blocked"

\* app.py:473-487: what the re-index block of an add handler does
ReindexOutcome(ss, fail) ==
    IF ss.processing THEN "skipped"
    ELSE IF fail = "none" THEN "done" ELSE "raised"

\* pdf_ingestion.py:33,37,73 and main.py:84: an error result starts with the
\* cross mark
IsErrorResult(txt) == Len(txt) > 0 /\ txt[1] = CrossMark

\* app.py:394-409
InitialSession ==
    [full_text      |-> <<>>,
     sources        |-> <<>>,
     source_details |-> <<>>,
     vector_db      |-> None,
     model          |-> None,
     chunks         |-> None,
     messages       |-> <<>>,
     processing     |-> FALSE]

\* streamlit run app.py: the first script run
AppInit ==
    /\ entry = "app"
    /\ main = MainOff
    /\ session_state = InitialSession
    /\ raw_texts = <<>>
    /\ adds = 0
    /\ asked = 0
    /\ turn = NoTurn
    /\ ChunkIdle /\ SearchIdle

\* app.py:474-487 (and 522-535, 579-592): processing = True, load the model,
\* re-chunk full_text, re-embed, then store vector_db and model and release
\* the flag.  An exception leaves what was assigned before it.
Reprocess(ss, fail) ==
    LET new_chunks == get_chunks(ss.full_text, AppChunkSize, AppOverlap) IN
    IF fail \in {"model", "chunk"}
    THEN [ss EXCEPT !.processing = TRUE]
    ELSE IF fail = "embed"
    THEN [ss EXCEPT !.processing = TRUE, !.chunks = Some(new_chunks)]
    ELSE [ss EXCEPT !.chunks     = Some(new_chunks),
                    !.vector_db  = Some(EncodeAll(new_chunks)),
                    !.model      = Some(ModelHandle),
                    !.processing = FALSE]

\* app.py:461-470 / 509-518: the text is appended after a separator, the
\* source and its metadata are appended
Appended(ss, name, txt, detail) ==
    [ss EXCEPT !.full_text      = @ \o Sep \o txt,
               !.sources        = Append(@, name),
               !.source_details = Append(@, detail)]

\* app.py:473: the re-index block runs only when the flag is down
AutoProcess(ss, fail) == IF ~ss.processing THEN Reprocess(ss, fail) ELSE ss

\* app.py:454-489: one uploaded file that is not yet a source
AddPdf ==
    /\ entry = "app" /\ ~Blocked
    /\ adds < MaxAdds
    /\ \E name \in PdfFiles, fail \in Failures :
          /\ ~InSeq(name, session_state.sources)
          /\ \E pdf_text \in PdfExtractions(name) :
                /\ session_state' =
                      AutoProcess(
                          Appended(session_state, name, pdf_text,
                                   [name |-> name, type |-> "pdf",
                                    size |-> PdfSize(name), time |-> "Just now"]),
                          fail)
                /\ raw_texts' = Append(raw_texts, pdf_text)
                /\ LET reindex == ReindexOutcome(session_state, fail) IN
                   turn' = TurnRecord("add_pdf",
                                      IF reindex = "raised" THEN "raised" ELSE "rerun",
                                      IF IsErrorResult(pdf_text)
                                      THEN "error_result" ELSE "text",
                                      reindex, "none", <<>>, "none", <<>>, <<>>)
    /\ adds' = adds + 1
    /\ UNCHANGED <<asked, entry, main, chunk_vars, search_vars>>

\* app.py:504-542: the Add YouTube Video button
AddYoutube ==
    /\ entry = "app" /\ ~Blocked
    /\ adds < MaxAdds
    /\ \E youtube_url \in YoutubeUrls, fail \in Failures :
          \/ /\ ~InSeq(youtube_url, session_state.sources)
             /\ \E fetched \in TranscriptOutcomes(youtube_url) :
                   \/ /\ fetched.raised
                      /\ UNCHANGED <<session_state, raw_texts>>
                      /\ turn' = TurnRecord("add_youtube", "caught", "raised",
                                            "none", "none", <<>>, "none", <<>>, <<>>)
                   \/ /\ ~fetched.raised
                      /\ session_state' =
                            AutoProcess(
                                Appended(session_state, youtube_url, fetched.text,
                                         [name |-> YoutubeDetailName(youtube_url),
                                          type |-> "youtube",
                                          size |-> "Video", time |-> "Just now"]),
                                fail)
                      /\ raw_texts' = Append(raw_texts, fetched.text)
                      /\ LET reindex == ReindexOutcome(session_state, fail) IN
                         turn' = TurnRecord("add_youtube",
                                            IF reindex = "raised"
                                            THEN "caught" ELSE "rerun",
                                            "text", reindex,
                                            "none", <<>>, "none", <<>>, <<>>)
          \/ /\ InSeq(youtube_url, session_state.sources)
             /\ UNCHANGED <<session_state, raw_texts>>
             /\ turn' = TurnRecord("add_youtube", "warned", "none", "none",
                                   "none", <<>>, "none", <<>>, <<>>)
    /\ adds' = adds + 1
    /\ UNCHANGED <<asked, entry, main, chunk_vars, search_vars>>

\* app.py:594-597: no source is left
Cleared(ss) ==
    [ss EXCEPT !.full_text = <<>>,
               !.vector_db = None,
               !.model     = None,
               !.chunks    = None]

\* app.py:573-598: the delete button of source idx (0-based)
DeleteSource ==
    /\ entry = "app" /\ ~Blocked
    /\ \E idx \in 0..(Len(session_state.source_details) - 1), fail \in Failures :
          LET popped == [session_state EXCEPT !.sources        = Pop(@, idx),
                                              !.source_details = Pop(@, idx)]
          IN  /\ session_state' = IF popped.sources # <<>>
                                  THEN Reprocess(popped, fail)
                                  ELSE Cleared(popped)
              /\ raw_texts' = Pop(raw_texts, idx)
              /\ turn' = IF popped.sources = <<>>
                         THEN TurnRecord("delete", "rerun", "none", "none",
                                         "none", <<>>, "none", <<>>, <<>>)
                         ELSE IF fail = "none"
                         THEN TurnRecord("delete", "rerun", "none", "done",
                                         "none", <<>>, "none", <<>>, <<>>)
                         ELSE TurnRecord("delete", "raised", "none", "raised",
                                         "none", <<>>, "none", <<>>, <<>>)
    /\ UNCHANGED <<adds, asked, entry, main, chunk_vars, search_vars>>

Prompts == {<<"a">>}

\* What the POST to Ollama does (generation.py:27-34):
\*   "ok"               - a 2xx response with a 'response' field
\*   "RequestException" - connection error, timeout or non-2xx status
\*   "KeyError"         - a 2xx response without a 'response' field
\*   "hang"             - the server accepts the request and never responds:
\*                        requests.post is called without a timeout, so the
\*                        call does not return
GenerationOutcomes == {"ok", "RequestException", "KeyError", "hang"}

\* Where a widget event that arrives during the run stops the chat handler:
\* Streamlit ends a running script at its next st.* call when a rerun is
\* requested, with an exception that "except Exception" does not catch.
\*   "none"          - no event arrives during the run
\*   "before_search" - st.chat_message / st.markdown / st.spinner (app.py:640-645)
\*   "at_display"    - st.markdown(answer) (app.py:663) or st.error(error_msg)
\*                     (app.py:673), before the assistant message is stored
StopPoints == {"none", "before_search", "at_display"}

Message(role, kind, q, ctx) ==
    [role |-> role, kind |-> kind, query |-> q, context |-> ctx]

\* app.py:657   "\n\n".join([chunk['text'] for chunk in top_chunks])
Context(top_chunks) == Join(Sep, [j \in 1..Len(top_chunks) |-> top_chunks[j].text])

\* app.py:646-677: the assistant message of an accepted query.  The answer is
\* the model's response, or the string generate_answer returns on a
\* RequestException ("Error connecting to Ollama: ..."); any exception gives
\* the message "Error: ...".
AssistantMessage(prompt, found, gen) ==
    IF found.status # "ok"
    THEN Message("assistant", found.status, prompt, <<>>)
    ELSE IF gen = "ok"
    THEN Message("assistant", "response", prompt, Context(found.results))
    ELSE IF gen = "RequestException"
    THEN Message("assistant", "Error connecting to Ollama", prompt, <<>>)
    ELSE Message("assistant", gen, prompt, <<>>)

\* the texts of a result list, in rank order
ResultTexts(found) == [j \in 1..Len(found) |-> found[j].text]

\* app.py:646-677: the calls of an accepted query.  generate_answer is called
\* only when the search returned, with the joined texts of top_chunks; the
\* handler writes the answer or the error message, never the chunks.
QueryTurn(found, gen, stop) ==
    IF found.status # "ok"
    THEN TurnRecord("query", IF stop = "at_display" THEN "stopped" ELSE "error",
                    "none", "none", found.status, <<>>, "none", <<>>, <<>>)
    ELSE TurnRecord("query",
                    IF gen = "hang" THEN "blocked"
                    ELSE IF stop = "at_display" THEN "stopped"
                    ELSE IF gen = "KeyError" THEN "error" ELSE "answered",
                    "none", "none", "ok", ResultTexts(found.results), gen,
                    Context(found.results), <<>>)

\* app.py:638-645: the run is stopped after the user message was stored and
\* before search_best_chunks is called
StoppedBeforeSearch(ss, prompt) ==
    [ss EXCEPT !.messages = Append(@, Message("user", "prompt", prompt, <<>>))]

\* An accepted query that also drops the index.
AnsweredDroppingIndex(ss, prompt, found, gen, stop) ==
    [ss EXCEPT !.messages = @ \o << Message("user", "prompt", prompt, <<>>),
                                    AssistantMessage(prompt, found, gen) >>,
               !.vector_db = None]

\* app.py:638-677: the session after an accepted query.  The user message is
\* appended before the try (638); the assistant message after
\* generate_answer returned (666-669) or in the except branch (674-677),
\* unless the call does not return or the run is stopped at the st.* call
\* that precedes the append (663, 673).
Answered(ss, prompt, found, gen, stop) ==
    IF (found.status = "ok" /\ gen = "hang") \/ stop = "at_display"
    THEN [ss EXCEPT !.messages = Append(@, Message("user", "prompt", prompt, <<>>))]
    ELSE [ss EXCEPT !.messages = @ \o << Message("user", "prompt", prompt, <<>>),
                                         AssistantMessage(prompt, found, gen) >>]

\* app.py:633-677: the chat input
Query ==
    /\ entry = "app" /\ ~Blocked
    /\ asked < MaxAsked
    /\ \E prompt \in Prompts :
          \/ /\ session_state.vector_db = None
             /\ UNCHANGED session_state
             /\ turn' = TurnRecord("query", "rejected", "none", "none",
                                   "none", <<>>, "none", <<>>, <<>>)
          \/ /\ session_state.vector_db # None
             /\ \E stop \in StopPoints :
                   \/ /\ stop = "before_search"
                      /\ session_state' = StoppedBeforeSearch(session_state, prompt)
                      /\ turn' = TurnRecord("query", "stopped", "none", "none",
                                            "none", <<>>, "none", <<>>, <<>>)
                   \/ /\ stop # "before_search"
                      /\ \E gen \in GenerationOutcomes :
                            \E found \in SearchOutcomes(prompt,
                                                        The(session_state.vector_db),
                                                        The(session_state.chunks),
                                                        AppTopK) :
                               /\ session_state' =
                                      Answered(session_state, prompt, found, gen, stop)
                               /\ turn' = QueryTurn(found, gen, stop)
    /\ asked' = asked + 1
    /\ UNCHANGED <<raw_texts, adds, entry, main, chunk_vars, search_vars>>

(***************************************************************************)
(* main.py: start_app, the command-line driver.  One action per line the   *)
(* user types at a prompt: the menu of the loading loop, then the          *)
(* question prompt of the chat loop.                                       *)
(***************************************************************************)
MainChunkSize == 200    \* main.py:115  get_chunks(raw_text, 200, 50)
MainOverlap   == 50     \* main.py:115
MainTopK      == 3      \* main.py:144  k=3
PreviewLen    == 150    \* main.py:149  best_context[:150]
FallbackLen   == 500    \* main.py:158  best_context[:500]

\* The text file and the PDF document a user names, and what the first holds.
TextFiles == {"data.txt"}

PdfPaths == {"b.pdf"}

TextContent(file_path) == Rep("t", 100)

\* reading_data(file_path): the text of the file, or nothing when the file
\* cannot be read
reading_data(file_path) == {TextContent(file_path), <<>>}

\* main.py:62,69,76: the label of a source
SourceName(kind, name) == [kind |-> kind, name |-> name]

\* python main.py: start_app before the first menu
MainInit ==
    /\ entry = "main"
    /\ main = [MainOff EXCEPT !.pc = "menu"]
    /\ session_state = InitialSession
    /\ raw_texts = <<>>
    /\ adds = 0
    /\ asked = 0
    /\ turn = NoTurn
    /\ ChunkIdle /\ SearchIdle

\* main.py:84   not raw_text or raw_text.startswith(cross mark)
LoadFailed(raw_text) == raw_text = <<>> \/ IsErrorResult(raw_text)

\* main.py:83-92: the safety check, then the accumulation
Loaded(m, raw_text, source_name) ==
    IF LoadFailed(raw_text)
    THEN m
    ELSE [m EXCEPT !.all_text       = @ \o Sep \o raw_text,
                   !.sources_loaded = Append(@, source_name)]

\* a pass of the loading loop that returned a value and went on to the menu
LoadTurn(op, raw_text) ==
    TurnRecord(op, "continue",
               IF raw_text = <<>> THEN "empty"
               ELSE IF IsErrorResult(raw_text) THEN "error_result" ELSE "text",
               "none", "none", <<>>, "none", <<>>, <<>>)

\* a pass of either loop that called nothing
PlainTurn(op, ended) ==
    TurnRecord(op, ended, "none", "none", "none", <<>>, "none", <<>>, <<>>)

\* main.py:55-62, 83-92: choice 1, a text file
MainAddText ==
    /\ entry = "main" /\ main.pc = "menu"
    /\ adds < MaxAdds
    /\ \E file_path \in TextFiles :
          \E raw_text \in reading_data(file_path) :
             /\ main' = Loaded(main, raw_text, SourceName("Text", file_path))
             /\ turn' = LoadTurn("choice_1", raw_text)
    /\ adds' = adds + 1
    /\ UNCHANGED <<session_state, raw_texts, asked, entry, chunk_vars, search_vars>>

\* main.py:64-69, 83-92: choice 2, a PDF document
MainAddPdf ==
    /\ entry = "main" /\ main.pc = "menu"
    /\ adds < MaxAdds
    /\ \E pdf_path \in PdfPaths :
          \E raw_text \in PdfExtractions(pdf_path) :
             /\ main' = Loaded(main, raw_text, SourceName("PDF", pdf_path))
             /\ turn' = LoadTurn("choice_2", raw_text)
    /\ adds' = adds + 1
    /\ UNCHANGED <<session_state, raw_texts, asked, entry, chunk_vars, search_vars>>

\* main.py:71-76, 83-92: choice 3, a YouTube URL.  The call at line 75 is
\* not inside a try: what get_youtube_transcript raises leaves start_app.
MainAddYoutube ==
    /\ entry = "main" /\ main.pc = "menu"
    /\ adds < MaxAdds
    /\ \E video_url \in YoutubeUrls :
          \E fetched \in TranscriptOutcomes(video_url) :
             \/ /\ fetched.raised
                /\ main' = [main EXCEPT !.pc = "crashed"]
                /\ turn' = TurnRecord("choice_3", "raised", "raised", "none",
                                      "none", <<>>, "none", <<>>, <<>>)
             \/ /\ ~fetched.raised
                /\ main' = Loaded(main, fetched.text,
                                  SourceName("YouTube", video_url))
                /\ turn' = LoadTurn("choice_3", fetched.text)
    /\ adds' = adds + 1
    /\ UNCHANGED <<session_state, raw_texts, asked, entry, chunk_vars, search_vars>>

\* main.py:78-80: any other input at the menu
MainInvalidChoice ==
    /\ entry = "main" /\ main.pc = "menu"
    /\ adds < MaxAdds
    /\ turn' = PlainTurn("invalid_choice", "continue")
    /\ adds' = adds + 1
    /\ UNCHANGED <<main, session_state, raw_texts, asked, entry,
                   chunk_vars, search_vars>>

\* A menu that lets the user go on with nothing loaded.
NothingLoadedNever(m) == FALSE

\* main.py:44   if not all_text
NothingLoaded(m) == m.all_text = <<>>

\* main.py:121, embedding.py:7-13: vector_embedding returns the vectors and
\* the model, or raises when the model cannot be loaded or encode fails
EmbeddingOutcomes == {"ok", "raised"}

\* main.py:43-48, 95-127: choice 4.  With nothing loaded the menu comes
\* back; otherwise the corpus is chunked and embedded and the chat loop
\* starts.  The call of vector_embedding is not inside a try: when it raises
\* start_app ends with text_chunks assigned and db_vectors, model unassigned.
MainDone ==
    /\ entry = "main" /\ main.pc = "menu"
    /\ \/ /\ NothingLoaded(main)
          /\ turn' = PlainTurn("choice_4", "continue")
          /\ UNCHANGED main
       \/ /\ ~NothingLoaded(main)
          /\ \E embedding \in EmbeddingOutcomes :
                LET text_chunks == get_chunks(main.all_text, MainChunkSize, MainOverlap)
                IN  IF embedding = "raised"
                    THEN /\ main' = [main EXCEPT !.pc          = "crashed",
                                                 !.text_chunks = text_chunks]
                         /\ turn' = TurnRecord("choice_4", "raised", "none", "raised",
                                               "none", <<>>, "none", <<>>, <<>>)
                    ELSE /\ main' = [main EXCEPT !.pc          = "chat",
                                                 !.text_chunks = text_chunks,
                                                 !.db_vectors  = EncodeAll(text_chunks),
                                                 !.model       = Some(ModelHandle)]
                         /\ turn' = TurnRecord("choice_4", "break", "none", "done",
                                               "none", <<>>, "none", <<>>, <<>>)
    /\ UNCHANGED <<session_state, raw_texts, adds, asked, entry,
                   chunk_vars, search_vars>>

\* main.py:145-158: the answer to one question.  Only results[0]['text'] is
\* handed to generate_answer; its first PreviewLen characters are printed
\* before the call, and its first FallbackLen characters when the call
\* raises.  A call that does not return leaves start_app inside it.  generate_answer returns the "Error connecting to Ollama" string
\* on a RequestException (generation.py:33-34), which is printed as the answer.
AskTurn(found, gen) ==
    LET best_context == found.results[1].text IN
    TurnRecord("ask", IF gen = "hang" THEN "blocked" ELSE "answered",
               "none", "none", "ok",
               ResultTexts(found.results), gen, best_context,
               IF gen = "KeyError"
               THEN PySlice(best_context, 0, FallbackLen)
               ELSE PySlice(best_context, 0, PreviewLen))

\* main.py:131-162: a question.  search_best_chunks is not inside a try.
MainAsk ==
    /\ entry = "main" /\ main.pc = "chat"
    /\ asked < MaxAsked
    /\ \E question \in Prompts, gen \in GenerationOutcomes :
          \E found \in SearchOutcomes(question, main.db_vectors,
                                      main.text_chunks, MainTopK) :
             \/ /\ found.status # "ok"
                /\ main' = [main EXCEPT !.pc = "crashed"]
                /\ turn' = TurnRecord("ask", "raised", "none", "none",
                                      found.status, <<>>, "none", <<>>, <<>>)
             \/ /\ found.status = "ok"
                /\ turn' = AskTurn(found, gen)
                /\ main' = IF gen = "hang"
                           THEN [main EXCEPT !.pc = "blocked"] ELSE main
    /\ asked' = asked + 1
    /\ UNCHANGED <<session_state, raw_texts, adds, entry, chunk_vars, search_vars>>

\* main.py:133-135: "exit"
MainExit ==
    /\ entry = "main" /\ main.pc = "chat"
    /\ main' = [main EXCEPT !.pc = "exited"]
    /\ turn' = PlainTurn("exit", "break")
    /\ UNCHANGED <<session_state, raw_texts, adds, asked, entry,
                   chunk_vars, search_vars>>

\* main.py:137-138: an empty line
MainEmptyQuery ==
    /\ entry = "main" /\ main.pc = "chat"
    /\ turn' = PlainTurn("empty_query", "continue")
    /\ UNCHANGED <<main, session_state, raw_texts, adds, asked, entry,
                   chunk_vars, search_vars>>

\* One of the two programs is started.
Init == AppInit \/ MainInit

Next ==
    \/ AddPdf \/ AddYoutube \/ DeleteSource \/ Query
    \/ MainAddText \/ MainAddPdf \/ MainAddYoutube \/ MainInvalidChoice
    \/ MainDone \/ MainAsk \/ MainExit \/ MainEmptyQuery

Spec == Init /\ [][Next]_vars

\* The process keeps running: a handler that can run, or a prompt that can be
\* answered, eventually is.
FairSpec == Spec /\ WF_vars(Next)

(***************************************************************************)
(* Claims about the app.py session, checked under Spec.  Every state of    *)
(* Spec is a state between two user turns; in a run of main.py the session *)
(* stays as it is initialised.                                             *)
(***************************************************************************)
\* C9 (order alignment of the session index): between any two turns, either
\* chunks and vector_db are both absent, or both are present, of equal
\* length, and vector_db[j] is the embedding of chunks[j] for every j.
C9_OrderAlignment ==
    LET ch == session_state.chunks
        db == session_state.vector_db
    IN  \/ ch = None /\ db = None
        \/ /\ ch # None /\ db # None
           /\ Len(The(db)) = Len(The(ch))
           /\ \A j \in 1..Len(The(ch)) : The(db)[j] = Encode(The(ch)[j])

\* C10 (corpus invariant): between any two turns full_text is the raw texts
\* of the sources now in session_state.sources, in the order they were added,
\* joined by the separator, so that a removed source's text is no longer in
\* it.  The formula also accepts the separator the add handlers put before
\* the first text: a state that violates it violates the claim.
C10_CorpusIsJoinOfSources ==
    /\ Len(raw_texts) = Len(session_state.sources)
    /\ \/ session_state.full_text = Join(Sep, raw_texts)
       \/ session_state.full_text = Sep \o Join(Sep, raw_texts)

(***************************************************************************)
(* Claims about what one handler run does, checked under Spec.  turn is    *)
(* the record of the run that led to the state; turn' in an action formula *)
(* is the record of the run the step models.                               *)
(***************************************************************************)
\* C11 (no sources, no answer): a query submitted in app.py while no source
\* is loaded or the index is absent is rejected, calls neither retrieval nor
\* generation and leaves the transcript as it was; in main.py no step taken
\* while all_text is empty enters the chat loop or asks a question.
C11_NoSourcesRejected ==
    [][ /\ ( /\ turn'.op = "query"
             /\ (session_state.sources = <<>> \/ session_state.vector_db = None) )
           => /\ turn'.ended = "rejected"
              /\ turn'.retrieval = "none"
              /\ turn'.generation = "none"
              /\ session_state'.messages = session_state.messages
        /\ (entry = "main" /\ main.all_text = <<>>)
           => /\ main'.pc # "chat"
              /\ turn'.op # "ask"
      ]_vars

\* C11 witness: a query was submitted to app.py with no source loaded.
C11_Witness ==
    /\ entry = "app"
    /\ turn.op = "query"
    /\ session_state.sources = <<>>

\* an add or remove handler of app.py ran to its st.rerun()
CompletedChange ==
    /\ entry = "app"
    /\ turn.op \in {"add_pdf", "add_youtube", "delete"}
    /\ turn.ended = "rerun"

\* C12 (Empty/Indexed state machine): after every completed add-source or
\* remove-source operation in app.py the session is Indexed (vector_db,
\* chunks and model present) when the source list is non-empty and Empty
\* (all three None, full_text empty) when it is empty.
C12_EmptyIndexedStateMachine ==
    CompletedChange =>
        LET ss == session_state IN
        IF ss.sources # <<>>
        THEN ss.vector_db # None /\ ss.chunks # None /\ ss.model # None
        ELSE /\ ss.vector_db = None /\ ss.chunks = None /\ ss.model = None
             /\ ss.full_text = <<>>

\* C13 (failed ingestion does not mutate the corpus): a run of an app.py add
\* handler whose ingestion failed (the PDF extraction returned an error
\* result, or the transcript fetch raised) leaves full_text, sources,
\* source_details, chunks and vector_db as they were.
C13_FailedIngestionLeavesCorpus ==
    [][ (entry = "app" /\ turn'.ingest \in {"error_result", "raised"})
        => /\ session_state'.full_text = session_state.full_text
           /\ session_state'.sources = session_state.sources
           /\ session_state'.source_details = session_state.source_details
           /\ session_state'.chunks = session_state.chunks
           /\ session_state'.vector_db = session_state.vector_db
      ]_vars

\* C14 (ingestion failures are local in the CLI driver): a pass of main.py's
\* loading loop whose ingestion failed (nothing read, an error result, or an
\* exception) leaves all_text and sources_loaded unchanged and returns to the
\* menu.
C14_CliIngestionFailureIsLocal ==
    [][ (entry = "main" /\ turn'.ingest \in {"empty", "error_result", "raised"})
        => /\ main'.all_text = main.all_text
           /\ main'.sources_loaded = main.sources_loaded
           /\ main'.pc = "menu"
      ]_vars

\* C15 (graceful degradation): whenever retrieval succeeded and the
\* generation call failed with a connection error, timeout or non-2xx status,
\* the run, when it went on to its end, showed the user retrieved chunk
\* text.  The formula accepts any part of the retrieved text as shown: a
\* state that violates it shows none.
C15_DegradedResponseShowsContext ==
    ( /\ turn.retrieval = "ok"
      /\ turn.generation = "RequestException"
      /\ turn.ended = "answered" )
        => turn.shown # <<>>

\* C19 (whole-corpus re-index on every change): after every completed add,
\* and every completed remove that leaves a source, chunks is
\* get_chunks(full_text, 500, 100) for the current full_text and vector_db is
\* the encoding of exactly those chunks.
C19_ReindexOnEveryChange ==
    (CompletedChange /\ session_state.sources # <<>>) =>
        LET current == get_chunks(session_state.full_text, AppChunkSize, AppOverlap)
        IN  /\ session_state.chunks = Some(current)
            /\ session_state.vector_db = Some(EncodeAll(current))

\* C20 (generation context): on every accepted query, in either program, the
\* context handed to generate_answer is the texts of all retrieved top-K
\* chunks in rank order, concatenated (with or without the separator).
C20_ContextIsAllTopK ==
    turn.generation # "none" =>
        \/ turn.gen_context = Join(Sep, turn.top)
        \/ turn.gen_context = Join(<<>>, turn.top)

\* C21 (the generation call never blocks): every accepted query whose
\* retrieval succeeded, and which therefore called generate_answer,
\* eventually completes with an answer or a degraded response, even when the
\* generation service accepts the request and never responds.  The formula
\* also accepts a run that the user's next widget event stopped: a behaviour
\* that violates it stays inside the generation call for ever.
C21_GenerationNeverBlocks ==
    (turn.generation # "none")
        ~> (turn.ended \in {"answered", "error", "stopped"})

\* C22 (query frame condition): a query run in app.py, whether rejected,
\* answered, ended by an error or stopped by a widget event, leaves sources, source_details, full_text,
\* chunks, vector_db, model and the processing flag unchanged; a rejected
\* query leaves messages unchanged too.
C22_QueryFrame ==
    [][ turn'.op = "query"
        => /\ session_state'.sources = session_state.sources
           /\ session_state'.source_details = session_state.source_details
           /\ session_state'.full_text = session_state.full_text
           /\ session_state'.chunks = session_state.chunks
           /\ session_state'.vector_db = session_state.vector_db
           /\ session_state'.model = session_state.model
           /\ session_state'.processing = session_state.processing
           /\ turn'.ended = "rejected"
                 => session_state'.messages = session_state.messages
      ]_vars

\* C22 witness: a query was answered against a loaded index.
C22_Witness ==
    /\ entry = "app"
    /\ turn.op = "query" /\ turn.ended = "answered"
    /\ session_state.vector_db # None
    /\ session_state.messages # <<>>

\* C23 (transcript shape): after any sequence of operations messages has
\* even length and is made of (user, assistant) pairs in that order, each
\* pair for one query.  The formula leaves out the states in which a run is
\* still inside a generation call: a state that violates it is one in which
\* control has returned to the user.
C23_TranscriptShape ==
    ~Blocked =>
        LET msgs == session_state.messages IN
        /\ Len(msgs) % 2 = 0
        /\ \A j \in 1..Len(msgs) :
              IF j % 2 = 1
              THEN msgs[j].role = "user"
              ELSE msgs[j].role = "assistant" /\ msgs[j].query = msgs[j - 1].query

\* C24 (processing flag is released): in every state of app.py in which
\* control has returned to the user, processing is False.
C24_ProcessingReleased ==
    (entry = "app" /\ ~Blocked) => session_state.processing = FALSE

====
